---- MODULE Spec2Model ----
(***************************************************************************)
(* SmolenskMap.tsx: the useOverpassData hook (one cancellable fetch per    *)
(* bounding box, partition of the Overpass response into road polylines    *)
(* and closed building polygons) and the selection state of SmolenskMap    *)
(* (activePoint, panelOpen, showLabels).                                   *)
(*                                                                         *)
(* Coordinates are fixed-point integers (degrees * 10^4).  JavaScript      *)
(* null / undefined are the sentinels Null, Undefined and NullId.          *)
(***************************************************************************)
EXTENDS Integers, Sequences, FiniteSets, TLC

VARIABLES
    phase,        \* "initial" (rendered, effect not yet run) | "mounted" | "unmounted"
    bbox,         \* the bbox argument of the current render of useOverpassData
    fetches,      \* one record per fetchData() invocation, in start order
    roads,        \* useState: roads
    buildings,    \* useState: buildings
    loading,      \* useState: loading
    error,        \* useState: error (Null or a message)
    applied,      \* json.elements of the invocation that last reached setRoads/setBuildings
    panelOpen,    \* useState: panelOpen
    activePoint,  \* useState: activePoint (NullId or a point id)
    showLabels    \* useState: showLabels

vars == <<phase, bbox, fetches, roads, buildings, loading, error, applied,
          panelOpen, activePoint, showLabels>>

hookVars == <<roads, buildings, loading, error, applied>>
uiVars == <<panelOpen, activePoint, showLabels>>

----------------------------------------------------------------------------
(* Bounds of the model *)

MaxFetches == 3      \* fetchData() invocations per behaviour
MaxGeomLen == 3      \* points per geometry in the exhaustive element set
MaxElems == 2        \* elements per response built from CoreElements
Overshoot == 1       \* how far the large responses exceed the building cap

----------------------------------------------------------------------------
(* JavaScript values *)

Null == "<null>"
Undefined == "<undefined>"
NullId == 0

Truthy(v) == v \notin {Undefined, Null, ""}

Min(a, b) == IF a <= b THEN a ELSE b

----------------------------------------------------------------------------
(* Bounding box (lines 19, 126-135) *)

SMOLENSK_CENTER == <<547818, 320401>>
dLat == 1200
dLon == 1800

BboxAround(c) ==
    [south |-> c[1] - dLat, north |-> c[1] + dLat,
     west |-> c[2] - dLon, east |-> c[2] + dLon]

\* the boxes a caller of the hook passes: the memoized one and a shifted one
Centers == {SMOLENSK_CENTER, <<SMOLENSK_CENTER[1] + dLat, SMOLENSK_CENTER[2]>>}
Bboxes == {BboxAround(c) : c \in Centers}

\* the effect's dependency array [bbox.east, bbox.north, bbox.south, bbox.west]
DepsChanged(old, new) ==
    \/ old.east # new.east
    \/ old.north # new.north
    \/ old.south # new.south
    \/ old.west # new.west

----------------------------------------------------------------------------
(* Overpass response (lines 43-52) *)

P11 == [lat |-> 1, lon |-> 1]
P12 == [lat |-> 1, lon |-> 2]
P22 == [lat |-> 2, lon |-> 2]
LatLons == {P11, P12, P22}

SeqsUpTo(S, n) == UNION {[1..k -> S] : k \in 0..n}

NoTags == [present |-> FALSE, highway |-> Undefined, building |-> Undefined]
TagMaps ==
    {NoTags} \cup
    [present : {TRUE}, highway : {Undefined, "yes"}, building : {Undefined, "yes"}]

\* geometry: absent, an array of {lat, lon}, or a value that is no array
NoGeometry == [kind |-> "absent", pts |-> <<>>]
BadGeometry == [kind |-> "bad", pts |-> <<>>]
Geom(pts) == [kind |-> "array", pts |-> pts]
Geometries(n) == {NoGeometry, BadGeometry} \cup {Geom(s) : s \in SeqsUpTo(LatLons, n)}

Elements == [type : {"way", "node"}, tags : TagMaps, geometry : Geometries(MaxGeomLen)]

Way(tags, geometry) == [type |-> "way", tags |-> tags, geometry |-> geometry]
HighwayTags == [present |-> TRUE, highway |-> "yes", building |-> Undefined]
BuildingTags == [present |-> TRUE, highway |-> Undefined, building |-> "yes"]

RoadEl == Way(HighwayTags, Geom(<<P11, P12>>))
OpenBuildingEl == Way(BuildingTags, Geom(<<P11, P12, P22>>))
ClosedBuildingEl == Way(BuildingTags, Geom(<<P12, P22, P11, P12>>))
ShortBuildingEl == Way(BuildingTags, Geom(<<P11, P22>>))
NodeEl == [type |-> "node", tags |-> BuildingTags, geometry |-> Geom(<<P11, P12, P22>>)]
BadEl == Way(HighwayTags, BadGeometry)

CoreElements == {RoadEl, OpenBuildingEl, ClosedBuildingEl, ShortBuildingEl, NodeEl}

\* a response of n elements cycling through pattern
Cycle(pattern, n) == [i \in 1..n |-> pattern[((i - 1) % Len(pattern)) + 1]]

\* the parsed body: json.elements is an array, or is missing
Json(elements) == [hasElements |-> TRUE, elements |-> elements]
NoElementsJson == [hasElements |-> FALSE, elements |-> <<>>]

----------------------------------------------------------------------------
(* Partition of the response (lines 83-102) *)

BuildingCap == 4000

\* variant: the pair built as [p.lon, p.lat]
toLatLngSwapped(p) == <<p.lon, p.lat>>

\* (p) => [p.lat, p.lon]
toLatLng(p) == <<p.lat, p.lon>>

\* el.geometry.map((p) => [p.lat, p.lon])
mapLatLng(pts) == [i \in 1..Len(pts) |-> toLatLng(pts[i])]

\* variant: the first point pushed without the comparison of line 95
closePolygonAlways(poly) == Append(poly, poly[1])

\* lines 93-95: push the first point unless the outline is already closed
closePolygon(poly) ==
    LET first == poly[1]
        last == poly[Len(poly)]
    IN  IF first[1] # last[1] \/ first[2] # last[2] THEN Append(poly, first) ELSE poly

\* Array.prototype.slice(start, end) for 0 <= start <= end
slice(arr, start, end) == SubSeq(arr, start + 1, Min(end, Len(arr)))

\* variant: setBuildings(_buildings) without the slice
pruneNothing(_buildings) == _buildings

\* _buildings.slice(0, 4000)
pruneBuildings(_buildings) == slice(_buildings, 0, BuildingCap)

Completed(_roads, _buildings) ==
    [threw |-> FALSE, message |-> "", roads |-> _roads, buildings |-> _buildings]
Thrown(message) ==
    [threw |-> TRUE, message |-> message, roads |-> <<>>, buildings |-> <<>>]

\* one iteration of the for-of loop (lines 86-98) on the accumulators acc;
\* an exception raised by an earlier iteration has ended the loop
forBody(acc, el) ==
    IF acc.threw THEN acc
    ELSE IF el.type # "way" \/ el.geometry.kind = "absent" \/ ~el.tags.present
    THEN acc
    ELSE IF Truthy(el.tags.highway)
    THEN IF el.geometry.kind = "bad"
         THEN Thrown("el.geometry.map is not a function")
         ELSE Completed(Append(acc.roads, mapLatLng(el.geometry.pts)), acc.buildings)
    ELSE IF Truthy(el.tags.building)
    THEN IF el.geometry.kind = "bad"
         THEN Thrown("el.geometry.map is not a function")
         ELSE LET poly == mapLatLng(el.geometry.pts) IN
              IF Len(poly) > 2
              THEN Completed(acc.roads, Append(acc.buildings, closePolygon(poly)))
              ELSE acc
    ELSE acc

\* the iterations for elements lo..hi, in index order, starting from acc
\* (the range is halved only to keep the evaluation depth logarithmic)
RECURSIVE forElements(_, _, _, _)
forElements(els, lo, hi, acc) ==
    IF lo > hi THEN acc
    ELSE IF lo = hi THEN forBody(acc, els[lo])
    ELSE LET mid == (lo + hi) \div 2
             firstHalf == forElements(els, lo, mid, acc)
         IN  IF firstHalf.threw THEN firstHalf
             ELSE forElements(els, mid + 1, hi, firstHalf)

\* lines 83-102 for a parsed body: the values handed to setRoads and setBuildings,
\* or the exception raised before either is called
processJson(json) ==
    IF ~json.hasElements THEN Thrown("json.elements is not iterable")
    ELSE LET r == forElements(json.elements, 1, Len(json.elements), Completed(<<>>, <<>>)) IN
         IF r.threw THEN r ELSE Completed(r.roads, pruneBuildings(r.buildings))

----------------------------------------------------------------------------
(* Responses of the network *)

\* a rejection value e; hasMessage is FALSE when e?.message is null or undefined
Rejection(message) == [hasMessage |-> TRUE, message |-> message]
NoMessageRejection == [hasMessage |-> FALSE, message |-> Undefined]

FetchRejections == {Rejection("Failed to fetch"), NoMessageRejection}
JsonRejections == {Rejection("Unexpected token < in JSON at position 0")}
Statuses == {200, 504}

isOk(status) == 200 <= status /\ status <= 299

\* bodies the interleaving specification draws from
SampleBodies ==
    {Json(<<>>), Json(<<RoadEl, OpenBuildingEl>>), Json(<<RoadEl, BadEl>>),
     NoElementsJson}

\* bodies the partition is checked on: every single element, every short sequence
\* of core elements, and responses around and beyond the building cap
LargeBodies ==
    {Json(Cycle(<<OpenBuildingEl, ClosedBuildingEl>>, n)) :
        n \in {BuildingCap - 1, BuildingCap, BuildingCap + Overshoot}}
    \cup {Json(Cycle(<<RoadEl, ClosedBuildingEl, NodeEl, RoadEl, OpenBuildingEl>>,
                     5 * (BuildingCap \div 2 + Overshoot)))}
AllBodies ==
    {Json(<<e>>) : e \in Elements}
    \cup {Json(s) : s \in SeqsUpTo(CoreElements, MaxElems)}
    \cup LargeBodies \cup SampleBodies

----------------------------------------------------------------------------
(* useOverpassData (lines 54-116) *)

Unresolved == {"fetch", "json"}

\* fetchData() up to its first await: a new invocation awaiting fetch()
startFetch(fs, b) == Append(fs, [bbox |-> b, cancelled |-> FALSE, pc |-> "fetch"])

\* variant: an effect that returns no cleanup
cleanupForgotten(fs) == fs

\* the effect's cleanup (lines 110-112): cancelled = true in the current closure
cleanup(fs) == [fs EXCEPT ![Len(fs)].cancelled = TRUE]

\* variant: setError(e?.message) without the default
errorMessageNoDefault(e) == e.message

\* e?.message ?? "Failed to load map data"
errorMessage(e) == IF e.hasMessage THEN e.message ELSE "Failed to load map data"

\* variant: the catch block without the finally block
catchWithoutFinally(f, e) ==
    /\ fetches' = [fetches EXCEPT ![f].pc = "threw"]
    /\ IF ~fetches[f].cancelled
       THEN error' = errorMessage(e)
       ELSE UNCHANGED error
    /\ UNCHANGED <<loading, roads, buildings, applied>>

\* catch and finally (lines 103-107) of invocation f for the thrown value e
catchFinally(f, e) ==
    /\ fetches' = [fetches EXCEPT ![f].pc = "threw"]
    /\ IF ~fetches[f].cancelled
       THEN error' = errorMessage(e) /\ loading' = FALSE
       ELSE UNCHANGED <<error, loading>>
    /\ UNCHANGED <<roads, buildings, applied>>

\* first render committed: the effect runs fetchData()
Mount ==
    /\ phase = "initial"
    /\ phase' = "mounted"
    /\ fetches' = startFetch(fetches, bbox)
    /\ loading' = TRUE
    /\ error' = Null
    /\ UNCHANGED <<bbox, roads, buildings, applied, uiVars>>

\* a render with another bbox: cleanup of the old effect, then the new effect
ChangeBbox(b) ==
    /\ phase = "mounted"
    /\ Len(fetches) < MaxFetches
    /\ DepsChanged(bbox, b)
    /\ bbox' = b
    /\ fetches' = startFetch(cleanup(fetches), b)
    /\ loading' = TRUE
    /\ error' = Null
    /\ UNCHANGED <<phase, roads, buildings, applied, uiVars>>

\* the component is torn down: cleanup only
Unmount ==
    /\ phase = "mounted"
    /\ phase' = "unmounted"
    /\ fetches' = cleanup(fetches)
    /\ UNCHANGED <<bbox, hookVars, uiVars>>

\* await fetch(...) rejects with e
FetchRejects(f, e) ==
    /\ fetches[f].pc = "fetch"
    /\ catchFinally(f, e)
    /\ UNCHANGED <<phase, bbox, uiVars>>

\* await fetch(...) resolves with a response of the given status (line 80)
FetchResponds(f, status) ==
    /\ fetches[f].pc = "fetch"
    /\ IF isOk(status)
       THEN /\ fetches' = [fetches EXCEPT ![f].pc = "json"]
            /\ UNCHANGED hookVars
       ELSE catchFinally(f, Rejection("Overpass error: " \o ToString(status)))
    /\ UNCHANGED <<phase, bbox, uiVars>>

\* await res.json() rejects with e
JsonRejects(f, e) ==
    /\ fetches[f].pc = "json"
    /\ catchFinally(f, e)
    /\ UNCHANGED <<phase, bbox, uiVars>>

\* await res.json() resolves with json (lines 81-107)
JsonResolves(f, json) ==
    /\ fetches[f].pc = "json"
    /\ IF fetches[f].cancelled
       THEN /\ fetches' = [fetches EXCEPT ![f].pc = "returned"]
            /\ UNCHANGED hookVars
       ELSE LET r == processJson(json) IN
            IF r.threw
            THEN catchFinally(f, Rejection(r.message))
            ELSE /\ fetches' = [fetches EXCEPT ![f].pc = "applied"]
                 /\ roads' = r.roads
                 /\ buildings' = r.buildings
                 /\ applied' = json.elements
                 /\ loading' = FALSE
                 /\ UNCHANGED error
    /\ UNCHANGED <<phase, bbox, uiVars>>

----------------------------------------------------------------------------
(* SmolenskMap (lines 118-284) *)

points ==
    << [id |-> 1, name |-> "Smolensk Center"],
       [id |-> 2, name |-> "Lopatinsky Garden"],
       [id |-> 3, name |-> "Smolensk Fortress Wall"] >>

\* points.find((p) => p.id === id): the first match, or Undefined
find(id) ==
    LET hits == {i \in DOMAIN points : points[i].id = id} IN
    IF hits = {} THEN Undefined
    ELSE points[CHOOSE i \in hits : \A j \in hits : i <= j].name

\* line 251: the panel (and its Close button) is rendered
panelRendered == panelOpen /\ activePoint # NullId

\* variant: handlePointClick without setActivePoint(id)
handlePointClickOpenOnly(id) ==
    /\ activePoint' = activePoint
    /\ panelOpen' = TRUE

handlePointClick(id) ==
    /\ activePoint' = id
    /\ panelOpen' = TRUE

\* variant: a toggle handler that also resets the selection
onCheckedChangeResetting(checked) ==
    /\ showLabels' = checked
    /\ panelOpen' = FALSE
    /\ activePoint' = NullId

\* the Switch's onCheckedChange={setShowLabels}
onCheckedChange(checked) ==
    /\ showLabels' = checked
    /\ UNCHANGED <<panelOpen, activePoint>>

\* click on the marker of points[i]
MarkerClick(i) ==
    /\ phase = "mounted"
    /\ handlePointClick(points[i].id)
    /\ UNCHANGED <<phase, bbox, fetches, hookVars, showLabels>>

\* variant: a Close handler that also clears activePoint
CloseClickClearing ==
    /\ phase = "mounted"
    /\ panelRendered
    /\ panelOpen' = FALSE
    /\ activePoint' = NullId
    /\ UNCHANGED <<phase, bbox, fetches, hookVars, showLabels>>

\* click on Close: setPanelOpen(false)
CloseClick ==
    /\ phase = "mounted"
    /\ panelRendered
    /\ panelOpen' = FALSE
    /\ UNCHANGED <<phase, bbox, fetches, hookVars, activePoint, showLabels>>

ToggleLabels ==
    /\ phase = "mounted"
    /\ onCheckedChange(~showLabels)
    /\ UNCHANGED <<phase, bbox, fetches, hookVars>>

----------------------------------------------------------------------------
(* Specifications *)

Init ==
    /\ phase = "initial"
    /\ bbox = BboxAround(SMOLENSK_CENTER)
    /\ fetches = <<>>
    /\ roads = <<>>
    /\ buildings = <<>>
    /\ loading = TRUE
    /\ error = Null
    /\ applied = <<>>
    /\ panelOpen = FALSE
    /\ activePoint = NullId
    /\ showLabels = FALSE

Fetches == DOMAIN fetches

\* the component: every interleaving of renders, network events and user events
Next ==
    \/ Mount
    \/ \E b \in Bboxes : ChangeBbox(b)
    \/ Unmount
    \/ \E f \in Fetches, e \in FetchRejections : FetchRejects(f, e)
    \/ \E f \in Fetches, status \in Statuses : FetchResponds(f, status)
    \/ \E f \in Fetches, e \in JsonRejections : JsonRejects(f, e)
    \/ \E f \in Fetches, json \in SampleBodies : JsonResolves(f, json)
    \/ \E i \in DOMAIN points : MarkerClick(i)
    \/ CloseClick
    \/ ToggleLabels

Spec == Init /\ [][Next]_vars

\* the hook alone, on the full set of response bodies
NextPartition ==
    \/ Mount
    \/ \E f \in Fetches, status \in Statuses : FetchResponds(f, status)
    \/ \E f \in Fetches, json \in AllBodies : JsonResolves(f, json)

SpecPartition == Init /\ [][NextPartition]_vars

\* fetch f takes its next step: the awaited promise settles
Settles(f) ==
    \/ \E e \in FetchRejections : FetchRejects(f, e)
    \/ \E status \in Statuses : FetchResponds(f, status)
    \/ \E e \in JsonRejections : JsonRejects(f, e)
    \/ \E json \in SampleBodies : JsonResolves(f, json)

\* the hook alone
NextHook ==
    \/ Mount
    \/ \E b \in Bboxes : ChangeBbox(b)
    \/ Unmount
    \/ \E f \in Fetches : Settles(f)

\* effects run once the render is committed, and every request eventually settles
SpecLive ==
    /\ Init
    /\ [][NextHook]_vars
    /\ WF_vars(Mount)
    /\ \A f \in 1..MaxFetches : WF_vars(f \in Fetches /\ Settles(f))

----------------------------------------------------------------------------
(* Vocabulary of the properties *)

Latest == Len(fetches)
IsUnresolved(f) == fetches[f].pc \in Unresolved

\* f was started for an earlier bbox, or the component is gone
Stale(f) == f < Latest \/ phase = "unmounted"
Current(f) == f = Latest /\ phase = "mounted"

\* f takes a step in this transition
Steps(f) == IsUnresolved(f) /\ fetches'[f].pc # fetches[f].pc

PointIds == {points[i].id : i \in DOMAIN points}
ActiveMarkers == {i \in DOMAIN points : activePoint = points[i].id}

\* a way with tags and a geometry array, as the query returns them
IsWay(el) == el.type = "way" /\ el.tags.present /\ el.geometry.kind = "array"
IsRoadway(el) == IsWay(el) /\ el.tags.highway = "yes"
IsStructure(el) == IsWay(el) /\ el.tags.highway # "yes" /\ el.tags.building = "yes"
IsStoredStructure(el) == IsStructure(el) /\ Len(el.geometry.pts) >= 3

PairsOf(el) == [k \in 1..Len(el.geometry.pts) |->
                  <<el.geometry.pts[k].lat, el.geometry.pts[k].lon>>]
IsClosedOutline(el) == el.geometry.pts[1] = el.geometry.pts[Len(el.geometry.pts)]
ClosedOutline(el) ==
    IF IsClosedOutline(el) THEN PairsOf(el) ELSE PairsOf(el) \o <<PairsOf(el)[1]>>

----------------------------------------------------------------------------
(* Properties *)

\* C1: a fetch that is stale (its bbox was replaced, or the component was torn
\* down, before it resolved) changes none of roads, buildings, error, loading when
\* it resolves; roads and buildings change only when the latest fetch of a mounted
\* component applies its response.
C1_StaleFetchWritesNothing ==
    [][ /\ \A f \in Fetches :
             (Stale(f) /\ Steps(f)) => UNCHANGED <<roads, buildings, error, loading>>
        /\ (<<roads, buildings>>' # <<roads, buildings>>) =>
             (phase = "mounted" /\ Steps(Latest) /\ fetches'[Latest].pc = "applied")
      ]_vars

\* C1 witness: a cancelled fetch has run to its end while its successor is pending
C1_Witness ==
    /\ phase = "mounted"
    /\ Latest >= 2
    /\ fetches[1].cancelled /\ fetches[1].pc \in {"returned", "threw"}
    /\ IsUnresolved(Latest)
    /\ loading /\ roads = <<>>

\* C5: a click on the marker of point p makes p the active point (the only marker
\* shown active) and opens the panel; Close closes the panel and leaves
\* activePoint as it was.
C5_ClickSelectsCloseKeeps ==
    [][ /\ \A i \in DOMAIN points :
             MarkerClick(i) =>
                /\ activePoint' = points[i].id
                /\ ActiveMarkers' = {i}
                /\ panelOpen'
        /\ (panelOpen /\ ~panelOpen') => activePoint' = activePoint
        /\ CloseClick => ~panelOpen'
      ]_vars

\* C5 witness: the panel was closed after point 2 was clicked
C5_Witness == ~panelOpen /\ activePoint = 2 /\ ActiveMarkers = {2}

\* C6: when the current fetch fails (rejection, non-OK status, malformed body)
\* roads and buildings stay as they were and error becomes a message.
C6_FailureKeepsGeometry ==
    [][ \A f \in Fetches :
            (Current(f) /\ Steps(f) /\ fetches'[f].pc = "threw") =>
                /\ roads' = roads
                /\ buildings' = buildings
                /\ error' \notin {Null, Undefined}
                /\ ~loading'
      ]_vars

\* C6 witness: a response whose second element is malformed failed after an
\* earlier fetch had drawn geometry, which is still there
C6_Witness ==
    /\ phase = "mounted"
    /\ fetches[Latest].pc = "threw"
    /\ error = "el.geometry.map is not a function"
    /\ roads # <<>> /\ buildings # <<>>

\* C7 as stated: no two unresolved requests are outstanding for the same bbox.
C7_OneRequestPerBbox ==
    \A f, g \in Fetches :
        (f # g /\ IsUnresolved(f) /\ IsUnresolved(g)) => fetches[f].bbox # fetches[g].bbox

\* C7 amended: of the unresolved requests for one bbox at most one is not
\* cancelled, and at most one request in all is unresolved and not cancelled.
C7_OneLiveRequest ==
    /\ \A f, g \in Fetches :
          (f # g /\ IsUnresolved(f) /\ IsUnresolved(g)
             /\ fetches[f].bbox = fetches[g].bbox) =>
                (fetches[f].cancelled \/ fetches[g].cancelled)
    /\ Cardinality({f \in Fetches : IsUnresolved(f) /\ ~fetches[f].cancelled}) <= 1

\* C7 witness: the bbox went back to an earlier value whose request is unresolved
C7_Witness ==
    \E f, g \in Fetches :
        /\ f < g /\ IsUnresolved(f) /\ IsUnresolved(g)
        /\ fetches[f].bbox = fetches[g].bbox
        /\ fetches[f].cancelled /\ ~fetches[g].cancelled

\* a re-render caused by the hook's state or by the label toggle
OtherRerender == <<roads, buildings, loading, error, showLabels>>' #
                 <<roads, buildings, loading, error, showLabels>>

\* C8 as stated: such a re-render returns the selection to its initial value.
C8_SelectionResetOnRerender ==
    [][ OtherRerender => (activePoint' = NullId /\ ~panelOpen') ]_vars

\* C8 amended: such a re-render leaves activePoint and panelOpen as they were.
C8_SelectionSurvivesRerender ==
    [][ OtherRerender => UNCHANGED <<activePoint, panelOpen>> ]_vars

\* C8 witness: a point is selected, labels are on and two fetches have settled
C8_Witness ==
    /\ panelOpen /\ activePoint = 3 /\ showLabels
    /\ roads # <<>> /\ error \notin {Null, Undefined} /\ ~loading

\* C9: whenever panelOpen holds, activePoint is the id of a defined point and
\* the panel's lookup finds it.
C9_OpenPanelHasPoint ==
    panelOpen => (activePoint \in PointIds /\ panelRendered /\ find(activePoint) # Undefined)

\* C9 witness: the panel shows the third point
C9_Witness == panelRendered /\ find(activePoint) = "Smolensk Fortress Wall"

\* loading and error while the latest fetch is pending, and once it has settled
LoadingTracksLatest ==
    phase = "mounted" =>
        /\ IsUnresolved(Latest) => (loading /\ error = Null)
        /\ ~IsUnresolved(Latest) =>
              (~loading /\ (error # Null <=> fetches[Latest].pc = "threw"))

Settled == phase = "mounted" => (~loading /\ ~IsUnresolved(Latest))

\* C10: loading is true and error null from the start of the latest fetch until
\* it settles (whatever cancelled fetches do meanwhile); when it has settled
\* loading is false and error is non-null exactly if it failed; and a component
\* that stays mounted reaches that state once the bbox stops changing.
C10_LoadingTracksLatestFetch == []LoadingTracksLatest /\ <>[]Settled

\* C10 witness: a cancelled fetch ran to its end, the latest one failed
C10_Witness ==
    /\ phase = "mounted"
    /\ Latest >= 2
    /\ fetches[1].cancelled /\ fetches[1].pc = "returned"
    /\ fetches[Latest].pc = "threw"
    /\ ~loading /\ error = "Failed to load map data"

\* C2: every polygon in the building list is the outline of the structure element
\* it comes from, with first and last point equal: an open outline with its first
\* point appended once, a closed outline as it is.
C2_BuildingsClosed ==
    LET src == SelectSeq(applied, IsStoredStructure) IN
    \A i \in DOMAIN buildings :
        LET poly == buildings[i]
            n == Len(src[i].geometry.pts)
        IN  /\ poly[1] = poly[Len(poly)]
            /\ SubSeq(poly, 1, n) = PairsOf(src[i])
            /\ Len(poly) = IF IsClosedOutline(src[i]) THEN n ELSE n + 1

\* C2 witness: the open outline (1,1),(1,2),(2,2) is stored closed
C2_Witness ==
    /\ applied = <<OpenBuildingEl>>
    /\ buildings = << <<(<<1, 1>>), (<<1, 2>>), (<<2, 2>>), (<<1, 1>>)>> >>

\* C3: the building list has at most 4000 entries, and they are the first
\* qualifying structures of the response, in response order.
C3_BuildingsCapped ==
    LET src == SelectSeq(applied, IsStoredStructure) IN
    /\ Len(buildings) <= BuildingCap
    /\ Len(buildings) = Min(Len(src), BuildingCap)
    /\ \A i \in DOMAIN buildings : buildings[i] = ClosedOutline(src[i])

\* C3 witness: a response with more qualifying structures than the cap was applied
C3_Witness ==
    /\ Len(SelectSeq(applied, IsStoredStructure)) > BuildingCap
    /\ Len(buildings) = BuildingCap

\* C4: the road list holds one polyline per roadway element, in response order,
\* each with the element's points in the same order and number; it is not capped.
C4_RoadsPreserved ==
    LET src == SelectSeq(applied, IsRoadway) IN
    /\ Len(roads) = Len(src)
    /\ \A i \in DOMAIN roads :
          /\ Len(roads[i]) = Len(src[i].geometry.pts)
          /\ \A k \in DOMAIN roads[i] :
                roads[i][k] = <<src[i].geometry.pts[k].lat, src[i].geometry.pts[k].lon>>

\* C4 witness: an open three-point road is stored as it came, with no closing point
C4_Witness ==
    /\ applied = <<Way(HighwayTags, Geom(<<P11, P12, P22>>))>>
    /\ roads = << <<(<<1, 1>>), (<<1, 2>>), (<<2, 2>>)>> >>

====
